---- MODULE Spec2Model ----
(***************************************************************************)
(* Model of cobs_to_shm: the single-writer / multi-reader shared memory    *)
(* ring buffer (shared_memory_ringbuffer.c), the byte-stuffed frame        *)
(* decoder and the ingest loop (cobs_to_shm.c).                            *)
(*                                                                         *)
(* Memory model.  writer_cursor and writer_pid are _Atomic and accessed    *)
(* with the default (sequentially consistent) ordering, so every load and  *)
(* store of them is one step.  The data region is plain memory; it is      *)
(* modelled in cells of 16 bytes (every slot boundary is a multiple of 16) *)
(* and every store or load of a cell is one step, so a racing load returns *)
(* either the old or the new contents of the cell.  A cell holds one       *)
(* integer: the value of its first eight bytes read as a size_t.           *)
(***************************************************************************)
EXTENDS Integers, Sequences, FiniteSets, TLC

(***************************************************************************)
(* Bounds of the model.                                                    *)
(***************************************************************************)
\* number of slots the writer commits in one run
MaxFrames == 3
\* width of size_t / unsigned long in the model: cursors live in 0..2^CursorBits-1
CursorBits == 12

(***************************************************************************)
(* Program constants.                                                      *)
(***************************************************************************)
\* sizeof(struct shared_memory_ringbuffer_slot) == offsetof(slot, data)
Prefix == 16
\* the value getpid() returns in the writer
WriterPid == 7
\* the pid a previous, now dead, writer left in an old segment
OldPid == 5

CursorSpace == 2 ^ CursorBits

\* the arguments of shared_memory_ringbuffer_writer_init, scaled down:
\* a power of two for the ring and a multiple of 16 for the largest packet
RingbufferSizes == {64}
PacketSizeMaxes == {16}
\* the sizes the writer passes to send() (bytes), all within packet_size_max
SendSizes == {0, 9, 16}
\* the payload of the k-th slot is tagged TagBase + k: frames differ from each
\* other, and a tag read as a size is larger than any size send() accepts
TagBase == 40
FrameTag(k) == TagBase + k

NULL == -1

\* what reader_init returns: NULL, MAP_FAILED ((void *) -1) or a reader
RetNull == <<"attach", 0>>
RetMapFailed == <<"attach", -1>>
RetReader == <<"attach", 1>>

VARIABLES
    \* ---- the named shared memory object and the process table
    shm_name,        \* what the name /cobs_to_shm refers to: "none", "old", "new"
    shm_size,        \* st_size of the object the writer creates
    old_pid,         \* writer_pid left in the segment of a previous writer
    writer_alive,    \* the writer process exists (kill(pid, 0) finds it)
    ringbuffer_size, \* the arguments the writer passes to writer_init
    packet_size_max,
    \* ---- struct shared_memory_ringbuffer
    cursor_wrap, max_slot_size, writer_cursor, writer_pid, data,
    \* ---- the writer's private state
    wpc,             \* position of the writer
    buf,             \* offset in data of the acquired slot's data, or NULL
    \* ---- struct shared_memory_ringbuffer_reader and the reader's locals
    rpc,             \* position of the reader
    r_obj,           \* the object the reader has open or mapped
    r_stsize,        \* s.st_size
    r_pid,           \* the writer_pid it loaded
    reader_cursor,
    r_slot,          \* offset in data of the slot recv() is reading
    r_size,          \* slot_size
    r_ret,           \* what the last call returned
    \* ---- history variables (observers, not program state)
    sent,            \* the slots committed so far
    seen,            \* the observations has_kept_up confirmed since attach
    touched,         \* the writer stored into the slot since recv() loaded its size
    lag_ok,          \* the lag bound held at every step of recv / has_kept_up since attach
    att_lo,          \* writer_cursor when the attach call began
    att_dead,        \* the writer was already gone when the attach / eof call began
    att_cur,         \* the cursor the attach call loaded
    att_idx,         \* number of slots committed when it was loaded
    reader_unbounded, \* history: reader_cursor as a counter that never wraps
    overrun_seen,    \* history: recv has returned -1 since the reader attached
    first_start,     \* cursor of the first slot recv() returned since attach
    \* ---- the byte source (the serial port) and read_escaped_frame's state
    d_src,           \* the bytes the source will still deliver, in order
    src_state,       \* once they run out a read blocks ("open"), returns 0 ("closed") or -1 ("error")
    max_plain_size,
    plain,           \* the contents of the max_plain_size bytes at out
    dst,             \* dst - plain
    code,
    d_pc,            \* position of the decoder
    d_ret,           \* what read_escaped_frame returned
    payload,         \* history: the payload the source's frame encodes
    restart_src,     \* history: what the source still held when decoding last started over
    eof_read,        \* history: a read() has returned 0
    logging_path,    \* TRUE when main was given a directory to log into
    latched,         \* history: where the main loop stood when the flag was set
    clock,           \* the readings current_time_in_unix_microseconds() will return
    packet_time_microseconds,
    time_microseconds_file_start,
    fh,              \* NULL or the index in files of the open file
    path,            \* NULL or the second the open file is named after
    files,           \* every file fopen() has created, in order, with its write
                     \* position and, for each fwrite, the header, the packet's
                     \* size and the bytes written after the packet
    printed,         \* the paths written to stdout, in order
    stdin,           \* bin_to_shm: the 8-byte words standard input still holds
    logging_header,  \* bin_to_shm: the header word read last
    b_pc,            \* bin_to_shm: where its main is
    \* ---- main() of cobs_to_shm
    got_sigterm_or_sigint,
    m_pc             \* position of main

segVars    == <<shm_name, shm_size, old_pid, writer_alive, ringbuffer_size, packet_size_max>>
shmVars    == <<cursor_wrap, max_slot_size, writer_cursor, writer_pid, data>>
writerVars == <<wpc, buf>>
readerVars == <<rpc, r_obj, r_stsize, r_pid, reader_cursor, r_slot, r_size, r_ret>>
attVars    == <<att_lo, att_dead, att_cur, att_idx, first_start, reader_unbounded,
                overrun_seen>>
ghostVars  == <<sent, seen, touched, lag_ok, att_lo, att_dead, att_cur, att_idx, first_start,
                reader_unbounded, overrun_seen>>
decVars    == <<d_src, src_state, max_plain_size, plain, dst, code, d_pc, d_ret, payload,
                restart_src, eof_read>>
logVars    == <<logging_path, latched, clock, packet_time_microseconds, time_microseconds_file_start,
                fh, path, files, printed>>
binVars    == <<stdin, logging_header, b_pc>>
pipeVars   == <<decVars, got_sigterm_or_sigint, m_pc, logVars, binVars>>
ringVars   == <<segVars, shmVars, writerVars, readerVars, ghostVars>>
vars       == <<ringVars, pipeVars>>

(***************************************************************************)
(* Arithmetic of the ring.                                                 *)
(***************************************************************************)
\* (x + 15) & ~15
RoundUp16(x) == ((x + 15) \div 16) * 16

\* a padded size that leaves out the prefix
SizePadded_NoPrefix(size) == RoundUp16(size) % CursorSpace

\* (sizeof(struct shared_memory_ringbuffer_slot) + size + 15) & ~15, in size_t
SizePadded(size) == RoundUp16(Prefix + size) % CursorSpace

\* shm->data + (cursor % shm->cursor_wrap)
SlotOffset(cursor) == cursor % cursor_wrap

\* offsetof(struct shared_memory_ringbuffer, data)
HeaderSize == 32

\* total_size of the mapping
TotalSize(ring, slot_size) == HeaderSize + ring + slot_size

\* the data region as ftruncate() leaves it: ring + max_slot_size zero bytes
ZeroData(ring, slot_size) == [c \in 0..((ring + slot_size) \div 16 - 1) |-> 0]

\* the cell of the data region that holds byte offset off
Cell(off) == off \div 16
Cells == DOMAIN data

\* number of 16-byte cells a payload of size bytes reaches into, within a slot
PayloadCells(size) ==
    LET most == (max_slot_size - Prefix) \div 16
        want == (size + 15) \div 16
    IN  IF want > most THEN most ELSE want

\* the contents of the size bytes that follow the prefix of the slot at off
PayloadAt(off, size) == [k \in 1..PayloadCells(size) |-> data[Cell(off) + k]]

\* the cells of the slot at offset off whose prefix holds size
SlotCells(off, size) ==
    {c \in Cells : /\ Cell(off) <= c
                   /\ c < Cell(off) + (RoundUp16(Prefix + size) \div 16)}

\* a store of the writer into the cell at byte offset off
Store(off, v) ==
    /\ data' = [data EXCEPT ![Cell(off)] = v]
    /\ touched' = (touched \/ (/\ rpc \in {"r_check", "got"}
                               /\ Cell(off) \in SlotCells(r_slot, r_size)))

(***************************************************************************)
(* The writer: acquire, fill the slot, send.                               *)
(***************************************************************************)
\* an acquire that waits while a reader is inside recv()
Acquire_Backpressure ==
    /\ writer_alive
    /\ wpc = "idle"
    /\ rpc \notin {"r_size", "r_check"}
    /\ buf' = SlotOffset(writer_cursor) + Prefix
    /\ wpc' = "fill"
    /\ UNCHANGED <<segVars, shmVars, readerVars, ghostVars>>
    /\ UNCHANGED pipeVars

\* acquire(): shm->data + (writer_cursor % cursor_wrap) + sizeof(slot)
Acquire ==
    /\ writer_alive
    /\ wpc = "idle"
    /\ buf' = SlotOffset(writer_cursor) + Prefix
    /\ wpc' = "fill"
    /\ UNCHANGED <<segVars, shmVars, readerVars, ghostVars>>
    /\ UNCHANGED pipeVars

\* the writer puts bytes anywhere in the max_slot_size - Prefix bytes at buf,
\* in any order and any number of times, before it sends
Fill ==
    /\ writer_alive
    /\ wpc = "fill"
    /\ \E k \in 0..((max_slot_size - Prefix) \div 16 - 1) :
           Store(buf + 16 * k, FrameTag(Len(sent) + 1))
    /\ UNCHANGED <<segVars, cursor_wrap, max_slot_size, writer_cursor, writer_pid,
                   writerVars, readerVars, sent, seen, lag_ok, attVars>>
    /\ UNCHANGED pipeVars

\* send(), first half: slot->size = size
SendStore ==
    /\ writer_alive
    /\ wpc = "fill"
    /\ Len(sent) < MaxFrames
    /\ \E size \in SendSizes :
           /\ SizePadded(size) <= max_slot_size
           /\ Store(SlotOffset(writer_cursor), size)
    /\ wpc' = "send"
    /\ UNCHANGED <<segVars, cursor_wrap, max_slot_size, writer_cursor, writer_pid,
                   buf, readerVars, sent, seen, lag_ok, attVars>>
    /\ UNCHANGED pipeVars

\* send(), second half: the assertion and the atomic store of the cursor
SendCursor ==
    /\ writer_alive
    /\ wpc = "send"
    /\ LET size == data[Cell(SlotOffset(writer_cursor))]
           size_padded == SizePadded(size)
       IN  /\ size_padded <= max_slot_size
           /\ writer_cursor' = (writer_cursor + size_padded) % CursorSpace
           /\ sent' = Append(sent, [start |-> writer_cursor, size |-> size,
                                    payload |-> PayloadAt(SlotOffset(writer_cursor), size)])
    /\ wpc' = "idle"
    /\ buf' = NULL
    /\ UNCHANGED <<segVars, cursor_wrap, max_slot_size, writer_pid, data,
                   readerVars, seen, touched, lag_ok, attVars>>
    /\ UNCHANGED pipeVars

(***************************************************************************)
(* The writer: writer_init, one step per system call or store, and the     *)
(* ways the writer goes away.                                              *)
(***************************************************************************)
\* ringbuffer_size & (ringbuffer_size - 1) is zero
PowerOfTwo(n) == n \in {2 ^ k : k \in 0..CursorBits}

\* the three assertions of writer_init
ArgsAccepted(ring, packet) ==
    /\ ring # 0 /\ PowerOfTwo(ring)
    /\ packet % 16 = 0
    /\ TotalSize(ring, packet + Prefix) % 16 = 0

\* writer_init up to shm_unlink: an assertion that fails aborts the process
InitCheck ==
    /\ writer_alive
    /\ wpc = "i_check"
    /\ IF ArgsAccepted(ringbuffer_size, packet_size_max)
       THEN /\ wpc' = "i_unlink"
            /\ UNCHANGED writer_alive
       ELSE /\ wpc' = "aborted"
            /\ writer_alive' = FALSE
    /\ UNCHANGED <<shm_name, shm_size, old_pid, ringbuffer_size, packet_size_max,
                   shmVars, buf, readerVars, ghostVars>>
    /\ UNCHANGED pipeVars

\* shm_unlink(name): the name goes away, an object a reader holds stays
InitUnlink ==
    /\ writer_alive
    /\ wpc = "i_unlink"
    /\ shm_name' = "none"
    /\ wpc' = "i_open"
    /\ UNCHANGED <<shm_size, old_pid, writer_alive, ringbuffer_size, packet_size_max,
                   shmVars, buf, readerVars, ghostVars>>
    /\ UNCHANGED pipeVars

\* shm_open(name, O_RDWR | O_CREAT): a new object of length zero
InitOpen ==
    /\ writer_alive
    /\ wpc = "i_open"
    /\ shm_name' = "new"
    /\ shm_size' = 0
    /\ wpc' = "i_truncate"
    /\ UNCHANGED <<old_pid, writer_alive, ringbuffer_size, packet_size_max,
                   shmVars, buf, readerVars, ghostVars>>
    /\ UNCHANGED pipeVars

\* ftruncate(fd, total_size): the object grows to total_size zero bytes
InitTruncate ==
    /\ writer_alive
    /\ wpc = "i_truncate"
    /\ shm_size' = TotalSize(ringbuffer_size, packet_size_max + Prefix)
    /\ wpc' = "i_store"
    /\ UNCHANGED <<shm_name, old_pid, writer_alive, ringbuffer_size, packet_size_max,
                   shmVars, buf, readerVars, ghostVars>>
    /\ UNCHANGED pipeVars

\* mmap() and *shm = (struct shared_memory_ringbuffer) { ... }: a plain struct
\* copy, so the two nonzero fields are stored one after the other in any order
InitStoreWrap ==
    /\ writer_alive
    /\ wpc = "i_store"
    /\ cursor_wrap = 0
    /\ cursor_wrap' = ringbuffer_size
    /\ UNCHANGED <<segVars, max_slot_size, writer_cursor, writer_pid, data,
                   writerVars, readerVars, ghostVars>>
    /\ UNCHANGED pipeVars

InitStoreSlotSize ==
    /\ writer_alive
    /\ wpc = "i_store"
    /\ max_slot_size = 0
    /\ max_slot_size' = packet_size_max + Prefix
    /\ UNCHANGED <<segVars, cursor_wrap, writer_cursor, writer_pid, data,
                   writerVars, readerVars, ghostVars>>
    /\ UNCHANGED pipeVars

\* shm->writer_pid = getpid(): atomic, the last thing writer_init does
InitPublish ==
    /\ writer_alive
    /\ wpc = "i_store"
    /\ cursor_wrap # 0 /\ max_slot_size # 0
    /\ writer_pid' = WriterPid
    /\ wpc' = "idle"
    /\ UNCHANGED <<segVars, cursor_wrap, max_slot_size, writer_cursor, data,
                   buf, readerVars, ghostVars>>
    /\ UNCHANGED pipeVars

\* writer_close(): shm->writer_pid = 0, then munmap
WriterClose ==
    /\ writer_alive
    /\ wpc = "idle"
    /\ writer_pid' = 0
    /\ wpc' = "closed"
    /\ UNCHANGED <<segVars, cursor_wrap, max_slot_size, writer_cursor, data,
                   buf, readerVars, ghostVars>>
    /\ UNCHANGED pipeVars

\* the writer process returns from main or calls exit()
WriterExit ==
    /\ writer_alive
    /\ wpc \in {"idle", "closed"}
    /\ writer_alive' = FALSE
    /\ wpc' = "exited"
    /\ UNCHANGED <<shm_name, shm_size, old_pid, ringbuffer_size, packet_size_max,
                   shmVars, buf, readerVars, ghostVars>>
    /\ UNCHANGED pipeVars

\* the writer process is killed (SIGKILL), wherever it is
WriterKilled ==
    /\ writer_alive
    /\ writer_alive' = FALSE
    /\ UNCHANGED <<shm_name, shm_size, old_pid, ringbuffer_size, packet_size_max,
                   shmVars, writerVars, readerVars, ghostVars>>
    /\ UNCHANGED pipeVars

(***************************************************************************)
(* The reader: attach.  Each step is one system call or one atomic load.   *)
(***************************************************************************)
\* st_size and writer_pid of the object the reader holds
ObjSize(o) == IF o = "new" THEN shm_size
              ELSE TotalSize(ringbuffer_size, packet_size_max + Prefix)
ObjPid(o)  == IF o = "new" THEN writer_pid ELSE old_pid

\* a probe that finds every process alive
NoSuchProcess_Never(pid) == FALSE

\* kill(pid, 0) fails with ESRCH: no process has that pid
NoSuchProcess(pid) == ~(pid = WriterPid /\ writer_alive)

ReaderIdle ==
    /\ r_obj' = "none" /\ r_stsize' = 0 /\ r_pid' = 0
    /\ reader_cursor' = 0 /\ r_slot' = 0 /\ r_size' = 0

\* shm_open(name, O_RDONLY): NULL on ENOENT
AttachOpen ==
    /\ rpc = "detached"
    /\ IF shm_name = "none"
       THEN /\ r_ret' = RetNull
            /\ UNCHANGED <<rpc, r_obj>>
       ELSE /\ r_obj' = shm_name
            /\ rpc' = "a_map"
            /\ r_ret' = <<"attach_pending", 0>>
    /\ att_lo' = writer_cursor
    /\ att_dead' = ~writer_alive
    /\ UNCHANGED <<segVars, shmVars, writerVars, r_stsize, r_pid, reader_cursor,
                   r_slot, r_size, sent, seen, touched, lag_ok, att_cur, att_idx,
                   first_start, reader_unbounded, overrun_seen>>
    /\ UNCHANGED pipeVars

\* fstat() and mmap(NULL, s.st_size, ...): mmap of length 0 fails with EINVAL
AttachMap ==
    /\ rpc = "a_map"
    /\ IF ObjSize(r_obj) = 0
       THEN /\ r_ret' = RetMapFailed
            /\ rpc' = "detached"
            /\ ReaderIdle
       ELSE /\ r_stsize' = ObjSize(r_obj)
            /\ rpc' = "a_pid"
            /\ UNCHANGED <<r_ret, r_obj, r_pid, reader_cursor, r_slot, r_size>>
    /\ UNCHANGED <<segVars, shmVars, writerVars, ghostVars>>
    /\ UNCHANGED pipeVars

\* the atomic load of writer_pid: NULL while it is zero
AttachLoadPid ==
    /\ rpc = "a_pid"
    /\ IF ObjPid(r_obj) = 0
       THEN /\ r_ret' = RetNull
            /\ rpc' = "detached"
            /\ ReaderIdle
       ELSE /\ r_pid' = ObjPid(r_obj)
            /\ rpc' = "a_probe"
            /\ UNCHANGED <<r_ret, r_obj, r_stsize, reader_cursor, r_slot, r_size>>
    /\ UNCHANGED <<segVars, shmVars, writerVars, ghostVars>>
    /\ UNCHANGED pipeVars

\* kill(writer_pid, 0): NULL on ESRCH; success and EPERM both go on
AttachProbe ==
    /\ rpc = "a_probe"
    /\ IF NoSuchProcess(r_pid)
       THEN /\ r_ret' = RetNull
            /\ rpc' = "detached"
            /\ ReaderIdle
       ELSE /\ rpc' = "a_cursor"
            /\ UNCHANGED <<r_ret, r_obj, r_stsize, r_pid, reader_cursor, r_slot, r_size>>
    /\ UNCHANGED <<segVars, shmVars, writerVars, ghostVars>>
    /\ UNCHANGED pipeVars

\* writer_cursor as a counter that never wraps: where the first commit of
\* the history started, plus the padded sizes of all commits
RECURSIVE PaddedSum(_)
PaddedSum(slots) ==
    IF slots = <<>> THEN 0 ELSE SizePadded(Head(slots).size) + PaddedSum(Tail(slots))
WriterUnbounded ==
    (IF sent = <<>> THEN writer_cursor ELSE sent[1].start) + PaddedSum(sent)

\* a reader that keeps the cursor it had instead of loading the writer's
AttachCursor_NotLoaded == reader_cursor

\* .reader_cursor = shm->writer_cursor
AttachCursor == writer_cursor

AttachLoadCursor ==
    /\ rpc = "a_cursor"
    /\ reader_cursor' = AttachCursor
    /\ rpc' = "ready"
    /\ r_ret' = RetReader
    /\ att_cur' = AttachCursor
    /\ att_idx' = Len(sent)
    /\ reader_unbounded' = WriterUnbounded
    /\ overrun_seen' = FALSE
    /\ first_start' = NULL
    /\ seen' = <<>>
    /\ lag_ok' = TRUE
    /\ touched' = FALSE
    /\ UNCHANGED <<segVars, shmVars, writerVars, r_obj, r_stsize, r_pid, r_slot,
                   r_size, sent, att_lo, att_dead>>
    /\ UNCHANGED pipeVars

(***************************************************************************)
(* The reader: recv, has_kept_up, eof, close.                              *)
(***************************************************************************)
\* writer_cursor - reader_cursor + max_slot_size <= cursor_wrap, in size_t
LagWithin == ((writer_cursor - reader_cursor) % CursorSpace) + max_slot_size <= cursor_wrap

\* recv(): the first atomic load of writer_cursor
RecvLoad ==
    /\ rpc = "ready"
    /\ IF writer_cursor = reader_cursor
       THEN /\ r_ret' = <<"recv", 0>>
            /\ rpc' = "ready"
       ELSE /\ r_ret' = <<"recv_pending", 0>>
            /\ rpc' = "r_size"
    /\ lag_ok' = (lag_ok /\ LagWithin)
    /\ UNCHANGED <<segVars, shmVars, writerVars, r_obj, r_stsize, r_pid, reader_cursor,
                   r_slot, r_size, sent, seen, touched, attVars>>
    /\ UNCHANGED pipeVars

\* recv(): slot_size = slot->size
RecvSize ==
    /\ rpc = "r_size"
    /\ r_slot' = SlotOffset(reader_cursor)
    /\ r_size' = data[Cell(SlotOffset(reader_cursor))]
    /\ rpc' = "r_check"
    /\ touched' = FALSE
    /\ lag_ok' = (lag_ok /\ LagWithin)
    /\ UNCHANGED <<segVars, shmVars, writerVars, r_obj, r_stsize, r_pid, reader_cursor,
                   r_ret, sent, seen, attVars>>
    /\ UNCHANGED pipeVars

\* a slow reader check that does not allow for the prefix
Overrun_WithoutPrefix(writer_cursor_after) ==
    (writer_cursor_after + max_slot_size - reader_cursor) % CursorSpace > cursor_wrap

\* the slow reader check as a signed difference, without the wrap of size_t
Overrun_Signed(writer_cursor_after) ==
    writer_cursor_after + max_slot_size - reader_cursor - Prefix > cursor_wrap

\* writer_cursor_after_reading_size + max_slot_size - reader_cursor - sizeof(slot) > cursor_wrap
Overrun(writer_cursor_after) ==
    (writer_cursor_after + max_slot_size - reader_cursor - Prefix) % CursorSpace > cursor_wrap

\* the ssize_t a size_t converts to
AsSigned(x) == IF x >= CursorSpace \div 2 THEN x - CursorSpace ELSE x

\* recv(): the second load of writer_cursor, the slow reader check, the advance
RecvCheck ==
    /\ rpc = "r_check"
    /\ IF Overrun(writer_cursor)
       THEN /\ r_ret' = <<"recv", -1>>
            /\ rpc' = "ready"
            /\ overrun_seen' = TRUE
            /\ UNCHANGED <<reader_cursor, first_start, reader_unbounded>>
       ELSE /\ reader_cursor' = (reader_cursor + SizePadded(r_size)) % CursorSpace
            /\ reader_unbounded' = reader_unbounded + SizePadded(r_size)
            /\ UNCHANGED overrun_seen
            /\ r_ret' = <<"recv", AsSigned(r_size)>>
            /\ rpc' = IF AsSigned(r_size) < 0 THEN "ready" ELSE "got"
            /\ first_start' = IF first_start = NULL THEN reader_cursor ELSE first_start
    /\ lag_ok' = (lag_ok /\ LagWithin)
    /\ UNCHANGED <<segVars, shmVars, writerVars, r_obj, r_stsize, r_pid, r_slot, r_size,
                   sent, seen, touched, att_lo, att_dead, att_cur, att_idx>>
    /\ UNCHANGED pipeVars

\* lag + max_slot_size <= cursor_wrap with lag = writer_cursor - reader_cursor, in size_t
KeptUp ==
    LET lag == (writer_cursor - reader_cursor) % CursorSpace
    IN  (lag + max_slot_size) % CursorSpace <= cursor_wrap

\* the cursor of the slot the last recv() returned
LastStart == (reader_cursor - SizePadded(r_size)) % CursorSpace

\* the consumer has read the payload at the returned pointer; has_kept_up()
HasKeptUp ==
    /\ rpc = "got"
    /\ r_ret' = <<"kept", IF KeptUp THEN 1 ELSE 0>>
    /\ rpc' = "ready"
    /\ seen' = IF KeptUp
               THEN Append(seen, [start |-> LastStart, size |-> r_size,
                                  payload |-> PayloadAt(r_slot, r_size)])
               ELSE seen
    /\ lag_ok' = (lag_ok /\ LagWithin)
    /\ UNCHANGED <<segVars, shmVars, writerVars, r_obj, r_stsize, r_pid, reader_cursor,
                   r_slot, r_size, sent, touched, attVars>>
    /\ UNCHANGED pipeVars

\* eof(): the atomic load of writer_pid
EofLoad ==
    /\ rpc = "ready"
    /\ IF ObjPid(r_obj) = 0
       THEN /\ r_ret' = <<"eof", 1>>
            /\ UNCHANGED <<rpc, r_pid>>
       ELSE /\ r_pid' = ObjPid(r_obj)
            /\ rpc' = "e_probe"
            /\ r_ret' = <<"eof_pending", 0>>
    /\ att_dead' = ~writer_alive
    /\ UNCHANGED <<segVars, shmVars, writerVars, r_obj, r_stsize, reader_cursor, r_slot,
                   r_size, sent, seen, touched, lag_ok, att_lo, att_cur, att_idx, reader_unbounded, overrun_seen,
                   first_start>>
    /\ UNCHANGED pipeVars

\* eof(): kill(writer_pid, 0); 1 on ESRCH, 0 on success and on EPERM
EofProbe ==
    /\ rpc = "e_probe"
    /\ r_ret' = <<"eof", IF NoSuchProcess(r_pid) THEN 1 ELSE 0>>
    /\ rpc' = "ready"
    /\ UNCHANGED <<segVars, shmVars, writerVars, r_obj, r_stsize, r_pid, reader_cursor,
                   r_slot, r_size, ghostVars>>
    /\ UNCHANGED pipeVars

\* reader_close(): munmap and free
ReaderClose ==
    /\ rpc = "ready"
    /\ rpc' = "detached"
    /\ r_ret' = <<"close", 0>>
    /\ ReaderIdle
    /\ UNCHANGED <<segVars, shmVars, writerVars, ghostVars>>
    /\ UNCHANGED pipeVars

(***************************************************************************)
(* The ring in steady state: the writer has initialized the segment.       *)
(***************************************************************************)
GhostInit ==
    /\ sent = <<>> /\ seen = <<>> /\ touched = FALSE /\ lag_ok = TRUE
    /\ att_lo = 0 /\ att_dead = FALSE /\ att_cur = 0 /\ att_idx = 0
    /\ first_start = NULL
    /\ reader_unbounded = 0 /\ overrun_seen = FALSE

ReaderInit ==
    /\ rpc = "detached" /\ r_obj = "none" /\ r_stsize = 0 /\ r_pid = 0
    /\ reader_cursor = 0 /\ r_slot = 0 /\ r_size = 0 /\ r_ret = <<"none", 0>>

\* main has not opened a log file; logging and c are the run's inputs
LogInit(logging, c) ==
    /\ logging_path = logging /\ clock = c
    /\ latched = [pc |-> "none", sent |-> 0, logged |-> 0]
    /\ packet_time_microseconds = 0 /\ time_microseconds_file_start = 0
    /\ fh = NULL /\ path = NULL /\ files = <<>> /\ printed = <<>>

\* bin_to_shm is not running
BinIdle == stdin = <<>> /\ logging_header = 0 /\ b_pc = "none"

\* no decoder and no main loop: the ring is driven through its interface
PipeIdle ==
    /\ d_src = <<>> /\ src_state = "open" /\ max_plain_size = 0 /\ plain = <<>>
    /\ dst = 0 /\ code = 0 /\ d_pc = "idle" /\ d_ret = 0 /\ payload = <<>>
    /\ restart_src = <<>> /\ eof_read = FALSE
    /\ LogInit(FALSE, <<>>)
    /\ BinIdle
    /\ got_sigterm_or_sigint = 0 /\ m_pc = "none"

\* the state writer_init(name, ringbuffer_size, packet_size_max) returns in
Init ==
    /\ ringbuffer_size \in RingbufferSizes
    /\ packet_size_max \in PacketSizeMaxes
    /\ cursor_wrap = ringbuffer_size
    /\ max_slot_size = packet_size_max + Prefix
    /\ shm_size = TotalSize(ringbuffer_size, packet_size_max + Prefix)
    /\ data = ZeroData(ringbuffer_size, packet_size_max + Prefix)
    /\ writer_cursor = 0
    /\ writer_pid = WriterPid
    /\ shm_name = "new" /\ old_pid = 0 /\ writer_alive = TRUE
    /\ wpc = "idle" /\ buf = NULL
    /\ ReaderInit
    /\ GhostInit
    /\ PipeIdle

WriterStep == Acquire \/ Fill \/ SendStore \/ SendCursor
AttachStep == AttachOpen \/ AttachMap \/ AttachLoadPid \/ AttachProbe \/ AttachLoadCursor
ReaderStep == AttachStep \/ RecvLoad \/ RecvSize \/ RecvCheck \/ HasKeptUp
                \/ EofLoad \/ EofProbe \/ ReaderClose

Next ==
    \/ Acquire \/ Fill \/ SendStore \/ SendCursor
    \/ AttachOpen \/ AttachMap \/ AttachLoadPid \/ AttachProbe \/ AttachLoadCursor
    \/ RecvLoad \/ RecvSize \/ RecvCheck \/ HasKeptUp
    \/ EofLoad \/ EofProbe \/ ReaderClose

Spec == Init /\ [][Next]_vars

(***************************************************************************)
(* The ring late in a run: writer_cursor is one short slot away            *)
(* from the end of its range (every slot committed so far was empty, so    *)
(* the ring holds zeros) and wraps with the next commits, next to a reader *)
(* that attaches and receives.                                             *)
(***************************************************************************)
WrapStarts == {CursorSpace - 16}

InitWrap ==
    /\ ringbuffer_size \in RingbufferSizes
    /\ packet_size_max \in PacketSizeMaxes
    /\ cursor_wrap = ringbuffer_size
    /\ max_slot_size = packet_size_max + Prefix
    /\ shm_size = TotalSize(ringbuffer_size, packet_size_max + Prefix)
    /\ data = ZeroData(ringbuffer_size, packet_size_max + Prefix)
    /\ writer_cursor \in WrapStarts
    /\ writer_pid = WriterPid
    /\ shm_name = "new" /\ old_pid = 0 /\ writer_alive = TRUE
    /\ wpc = "idle" /\ buf = NULL
    /\ ReaderInit
    /\ GhostInit
    /\ PipeIdle

NextWrap ==
    \/ Acquire \/ Fill \/ SendStore \/ SendCursor
    \/ AttachOpen \/ AttachMap \/ AttachLoadPid \/ AttachProbe \/ AttachLoadCursor
    \/ RecvLoad \/ RecvSize \/ RecvCheck \/ HasKeptUp

SpecWrap == InitWrap /\ [][NextWrap]_vars

(***************************************************************************)
(* A ring of the length of one slot, after one empty slot was committed,   *)
(* next to a reader that attaches and receives.                            *)
(***************************************************************************)
LapRingbufferSizes == {32}

InitLap ==
    /\ ringbuffer_size \in LapRingbufferSizes
    /\ packet_size_max \in PacketSizeMaxes
    /\ cursor_wrap = ringbuffer_size
    /\ max_slot_size = packet_size_max + Prefix
    /\ shm_size = TotalSize(ringbuffer_size, packet_size_max + Prefix)
    /\ data = ZeroData(ringbuffer_size, packet_size_max + Prefix)
    /\ writer_cursor = SizePadded(0)
    /\ writer_pid = WriterPid
    /\ shm_name = "new" /\ old_pid = 0 /\ writer_alive = TRUE
    /\ wpc = "idle" /\ buf = NULL
    /\ ReaderInit
    /\ GhostInit
    /\ PipeIdle

NextLap ==
    \/ Acquire \/ Fill \/ SendStore \/ SendCursor
    \/ AttachOpen \/ AttachMap \/ AttachLoadPid \/ AttachProbe \/ AttachLoadCursor
    \/ RecvLoad \/ RecvSize \/ RecvCheck \/ HasKeptUp

SpecLap == InitLap /\ [][NextLap]_vars

(***************************************************************************)
(* The life of a segment: a writer that starts (over nothing or over the   *)
(* segment a previous writer left), commits slots and goes away, next to a *)
(* reader that attaches, polls and detaches at any time.                   *)
(***************************************************************************)
InitLife ==
    /\ ringbuffer_size \in RingbufferSizes
    /\ packet_size_max \in PacketSizeMaxes
    /\ shm_name \in {"none", "old"}
    /\ old_pid \in {0, OldPid}
    /\ (shm_name = "none" => old_pid = 0)
    /\ shm_size = 0
    /\ writer_alive = TRUE
    /\ cursor_wrap = 0 /\ max_slot_size = 0 /\ writer_cursor = 0 /\ writer_pid = 0
    /\ data = ZeroData(ringbuffer_size, packet_size_max + Prefix)
    /\ wpc = "i_unlink" /\ buf = NULL
    /\ ReaderInit
    /\ GhostInit
    /\ PipeIdle

NextLife ==
    \/ InitUnlink \/ InitOpen \/ InitTruncate
    \/ InitStoreWrap \/ InitStoreSlotSize \/ InitPublish
    \/ Acquire \/ SendStore \/ SendCursor
    \/ WriterClose \/ WriterExit \/ WriterKilled
    \/ AttachOpen \/ AttachMap \/ AttachLoadPid \/ AttachProbe \/ AttachLoadCursor
    \/ RecvLoad \/ RecvSize \/ RecvCheck
    \/ EofLoad \/ EofProbe \/ ReaderClose

SpecLife == InitLife /\ [][NextLife]_vars

(***************************************************************************)
(* writer_init from its first line, with arguments of every kind, next to  *)
(* a reader that attaches.  Assertions are compiled in.                    *)
(***************************************************************************)
ArgRingbufferSizes == {0, 8, 16, 48, 64}
ArgPacketSizeMaxes == {8, 16, 32}

InitArgs ==
    /\ ringbuffer_size \in ArgRingbufferSizes
    /\ packet_size_max \in ArgPacketSizeMaxes
    /\ shm_name \in {"none", "old"}
    /\ old_pid \in {0, OldPid}
    /\ (shm_name = "none" => old_pid = 0)
    /\ shm_size = 0
    /\ writer_alive = TRUE
    /\ cursor_wrap = 0 /\ max_slot_size = 0 /\ writer_cursor = 0 /\ writer_pid = 0
    /\ data = ZeroData(ringbuffer_size, packet_size_max + Prefix)
    /\ wpc = "i_check" /\ buf = NULL
    /\ ReaderInit
    /\ GhostInit
    /\ PipeIdle

NextArgs ==
    \/ InitCheck \/ InitUnlink \/ InitOpen \/ InitTruncate
    \/ InitStoreWrap \/ InitStoreSlotSize \/ InitPublish
    \/ AttachOpen \/ AttachMap \/ AttachLoadPid \/ AttachProbe \/ AttachLoadCursor

SpecArgs == InitArgs /\ [][NextArgs]_vars

(***************************************************************************)
(* The byte-stuffed frame decoder, read_escaped_frame.  A byte is 0..255.  *)
(***************************************************************************)
\* a block of count 0xFF carries MaxRun data bytes and implies no zero
MaxRun == 254
\* the value an unwritten byte of the output buffer holds
StaleByte == 170
\* the values a count byte can hold after a read() that returned 0 left it unset
IndeterminateCodes == {0, 1, 2, MaxRun + 1}

Min(a, b) == IF a < b THEN a ELSE b

\* a check that lets the block and its zero end one byte later
TooLong_OneLate(c) == dst + c > max_plain_size + 1

\* (size_t)(dst - plain) + code > max_plain_size
TooLong(c) == dst + c > max_plain_size

\* what the loop does with a count byte: frame end, too long, or a block to read
AfterCode(c) ==
    /\ code' = c
    /\ IF c = 0
       THEN /\ d_pc' = "done"
            /\ d_ret' = IF dst > 0 THEN dst - 1 ELSE 0
       ELSE /\ d_pc' = IF TooLong(c) THEN "discard" ELSE "block"
            /\ UNCHANGED d_ret

\* read(fd, &code, 1) delivers a byte
ReadCode ==
    /\ d_pc = "code"
    /\ d_src # <<>>
    /\ d_src' = Tail(d_src)
    /\ AfterCode(Head(d_src))
    /\ UNCHANGED <<ringVars, src_state, max_plain_size, plain, dst, payload, restart_src, eof_read,
                   got_sigterm_or_sigint, m_pc>>
    /\ UNCHANGED <<logVars, binVars>>

\* read(fd, &code, 1) returns 0 at end of stream: code is used unset
ReadCodeEof ==
    /\ d_pc = "code"
    /\ d_src = <<>>
    /\ src_state = "closed"
    /\ \E c \in IndeterminateCodes : AfterCode(c)
    /\ eof_read' = TRUE
    /\ UNCHANGED <<ringVars, d_src, src_state, max_plain_size, plain, dst, payload, restart_src,
                   got_sigterm_or_sigint, m_pc>>
    /\ UNCHANGED <<logVars, binVars>>

\* readall(fd, dst, code - 1), dst += code - 1, and the implied zero.  At end of
\* stream readall returns the short count, which the caller takes for success.
ReadBlock ==
    /\ d_pc = "block"
    /\ LET size == code - 1
           now  == Min(size, Len(d_src))
           end  == dst + size
       IN  /\ now = size \/ src_state = "closed"
           /\ d_src' = SubSeq(d_src, now + 1, Len(d_src))
           /\ plain' = [i \in 1..Len(plain) |->
                           IF dst < i /\ i <= dst + now THEN d_src[i - dst]
                           ELSE IF code # MaxRun + 1 /\ i = end + 1 THEN 0
                           ELSE plain[i]]
           /\ dst' = IF code # MaxRun + 1 THEN end + 1 ELSE end
           /\ eof_read' = (eof_read \/ now < size)
    /\ d_pc' = "code"
    /\ UNCHANGED <<ringVars, src_state, max_plain_size, code, d_ret, payload, restart_src,
                   got_sigterm_or_sigint, m_pc>>
    /\ UNCHANGED <<logVars, binVars>>

\* a discard loop that goes on decoding where the long frame stopped
Discard_KeepsDst ==
    /\ d_pc = "discard"
    /\ d_src # <<>>
    /\ d_src' = Tail(d_src)
    /\ code' = Head(d_src)
    /\ IF Head(d_src) = 0
       THEN d_pc' = "code" /\ restart_src' = Tail(d_src)
       ELSE UNCHANGED <<d_pc, restart_src>>
    /\ UNCHANGED <<ringVars, src_state, max_plain_size, plain, dst, d_ret, payload,
                   eof_read, got_sigterm_or_sigint, m_pc>>
    /\ UNCHANGED <<logVars, binVars>>

\* the frame is too long: one read of the discard loop; after the zero byte
\* read_escaped_frame calls itself with the same arguments
Discard ==
    /\ d_pc = "discard"
    /\ d_src # <<>>
    /\ d_src' = Tail(d_src)
    /\ code' = Head(d_src)
    /\ IF Head(d_src) = 0
       THEN d_pc' = "code" /\ dst' = 0 /\ restart_src' = Tail(d_src)
       ELSE UNCHANGED <<d_pc, dst, restart_src>>
    /\ UNCHANGED <<ringVars, src_state, max_plain_size, plain, d_ret, payload,
                   eof_read, got_sigterm_or_sigint, m_pc>>
    /\ UNCHANGED <<logVars, binVars>>

\* the discard loop at end of stream: read() returns 0, code keeps its nonzero
\* value, and the loop never ends
DiscardEof ==
    /\ d_pc = "discard"
    /\ d_src = <<>>
    /\ src_state = "closed"
    /\ d_pc' = "spin"
    /\ eof_read' = TRUE
    /\ UNCHANGED <<ringVars, d_src, src_state, max_plain_size, plain, dst, code, d_ret,
                   payload, restart_src, got_sigterm_or_sigint, m_pc>>
    /\ UNCHANGED <<logVars, binVars>>

\* a read() of the decoder or of readall returns -1
ReadFails ==
    /\ d_pc \in {"code", "block", "discard"}
    /\ src_state = "error"
    /\ IF d_pc = "block" THEN Len(d_src) < code - 1 ELSE d_src = <<>>
    /\ d_src' = <<>>
    /\ plain' = [i \in 1..Len(plain) |->
                    IF d_pc = "block" /\ dst < i /\ i <= dst + Len(d_src)
                    THEN d_src[i - dst] ELSE plain[i]]
    /\ d_ret' = -1
    /\ d_pc' = "done"
    /\ UNCHANGED <<ringVars, src_state, max_plain_size, dst, code, payload, restart_src, eof_read,
                   got_sigterm_or_sigint, m_pc>>
    /\ UNCHANGED <<logVars, binVars>>

(***************************************************************************)
(* The encoder of the wire format, as the format is documented: blocks of  *)
(* a count k and k - 1 nonzero bytes, a zero implied after every block but *)
(* a maximal one, nothing after the last block.                            *)
(***************************************************************************)
\* the length of the run of nonzero bytes of P that starts at i, at most MaxRun
RunFrom(P, i) ==
    LET stops == {n \in 0..MaxRun : n = MaxRun \/ i + n > Len(P) \/ P[i + n] = 0}
    IN  CHOOSE n \in stops : \A m \in stops : n <= m

RECURSIVE EncodeFrom(_, _)
EncodeFrom(P, i) ==
    IF i > Len(P) THEN <<1>>
    ELSE LET n   == RunFrom(P, i)
             run == SubSeq(P, i, i + n - 1)
         IN  IF i + n > Len(P) THEN <<n + 1>> \o run
             ELSE IF n = MaxRun THEN <<n + 1>> \o run \o EncodeFrom(P, i + n)
             ELSE <<n + 1>> \o run \o EncodeFrom(P, i + n + 1)

Encode(P) == EncodeFrom(P, 1)

(***************************************************************************)
(* The decoder alone, on the encoding of one payload and its end byte; the  *)
(* source then has nothing more to deliver: its next read blocks or fails. *)
(***************************************************************************)
\* lengths of the runs of nonzero bytes and of zero bytes payloads are made of
RunLengths == {0, 1, 2, MaxRun - 1, MaxRun}
ZeroRuns == {0, 1, 2}
\* the capacities read_escaped_frame is called with
Capacities == {3, MaxRun, MaxRun + 1, 2 * MaxRun + 2}

\* n nonzero bytes, each telling its position
NonZero(first, n) == [j \in 1..n |-> ((first + j) % 255) + 1]

Payloads ==
    {NonZero(0, a) \o [j \in 1..z |-> 0] \o NonZero(a + z, b) :
        a \in RunLengths, z \in ZeroRuns, b \in RunLengths}

InitCobs ==
    /\ ringbuffer_size \in RingbufferSizes
    /\ packet_size_max \in PacketSizeMaxes
    /\ cursor_wrap = ringbuffer_size
    /\ max_slot_size = packet_size_max + Prefix
    /\ shm_size = TotalSize(ringbuffer_size, packet_size_max + Prefix)
    /\ data = ZeroData(ringbuffer_size, packet_size_max + Prefix)
    /\ writer_cursor = 0
    /\ writer_pid = WriterPid
    /\ shm_name = "new" /\ old_pid = 0 /\ writer_alive = TRUE
    /\ wpc = "idle" /\ buf = NULL
    /\ ReaderInit
    /\ GhostInit
    /\ max_plain_size \in Capacities
    /\ payload \in {P \in Payloads : Len(P) <= max_plain_size}
    /\ d_src = Encode(payload) \o <<0>>
    /\ restart_src = d_src /\ eof_read = FALSE
    /\ LogInit(FALSE, <<>>)
    /\ BinIdle
    /\ src_state \in {"open", "error"}
    /\ plain = [i \in 1..max_plain_size |-> StaleByte]
    /\ dst = 0 /\ code = 0 /\ d_pc = "code" /\ d_ret = 0
    /\ got_sigterm_or_sigint = 0 /\ m_pc = "none"

NextCobs == ReadCode \/ ReadBlock \/ Discard \/ ReadFails

SpecCobs == InitCobs /\ [][NextCobs]_vars

(***************************************************************************)
(* read_escaped_frame as a function of the bytes the source holds, for a   *)
(* source that stays open: the frame it returns, if it returns.  out is    *)
(* what lies between plain and dst.                                        *)
(***************************************************************************)
NoFrame == [returned |-> FALSE, ret |-> 0, out |-> <<>>]

\* the bytes that follow the first zero byte of s
AfterZero(s) ==
    LET z == CHOOSE i \in 1..Len(s) : s[i] = 0 /\ \A j \in 1..(i - 1) : s[j] # 0
    IN  SubSeq(s, z + 1, Len(s))

RECURSIVE DecodeFrom(_, _, _)
DecodeFrom(src, out, cap) ==
    IF src = <<>> THEN NoFrame
    ELSE LET c    == Head(src)
             rest == Tail(src)
         IN  IF c = 0
             THEN [returned |-> TRUE,
                   ret |-> IF Len(out) > 0 THEN Len(out) - 1 ELSE 0,
                   out |-> out]
             ELSE IF Len(out) + c > cap
             THEN IF \E i \in 1..Len(rest) : rest[i] = 0
                  THEN DecodeFrom(AfterZero(rest), <<>>, cap)
                  ELSE NoFrame
             ELSE IF Len(rest) < c - 1 THEN NoFrame
             ELSE DecodeFrom(SubSeq(rest, c, Len(rest)),
                             out \o SubSeq(rest, 1, c - 1)
                                 \o (IF c = MaxRun + 1 THEN <<>> ELSE <<0>>),
                             cap)

(***************************************************************************)
(* main() of cobs_to_shm: the loop over whole packets, after writer_init   *)
(* and open_serial_port have returned.                                     *)
(***************************************************************************)
\* sizeof(buf->logging_header)
LoggingHeader == 8
\* the bytes the source can deliver and how many of them
StreamBytes == {0, 1, 2, 9}
MaxStream == 4

RECURSIVE SeqsUpTo(_, _)
SeqsUpTo(S, n) ==
    IF n = 0 THEN {<<>>}
    ELSE LET shorter == SeqsUpTo(S, n - 1)
         IN  shorter \cup {Append(q, b) : q \in {r \in shorter : Len(r) = n - 1}, b \in S}

\* frames appended to the log files so far
RECURSIVE FramesIn(_)
FramesIn(fs) == IF fs = <<>> THEN 0 ELSE Len(Head(fs).frames) + FramesIn(Tail(fs))
Logged == FramesIn(files)

\* if (got_sigterm_or_sigint): the poll that is never taken
BreakOnFlag_Never == FALSE

\* if (got_sigterm_or_sigint), after the decoder and after the time is taken
BreakOnFlag == got_sigterm_or_sigint = 1

\* if (!ret) continue: the test that never skips
EmptyFrame_Never == FALSE

\* if (!ret) continue
EmptyFrame == d_ret = 0

\* the decoder is inside a read() that has to wait for the source
Blocked ==
    /\ src_state = "open"
    /\ \/ d_pc \in {"code", "discard"} /\ d_src = <<>>
       \/ d_pc = "block" /\ Len(d_src) < code - 1

\* sigint_handler; a read() that is waiting returns -1 (the handler is
\* installed without SA_RESTART)
SignalArrives ==
    /\ writer_alive
    /\ m_pc # "none"
    /\ got_sigterm_or_sigint = 0
    /\ got_sigterm_or_sigint' = 1
    /\ IF Blocked
       THEN /\ d_ret' = -1
            /\ d_pc' = "done"
            /\ d_src' = <<>>
            /\ plain' = [i \in 1..Len(plain) |->
                            IF d_pc = "block" /\ dst < i /\ i <= dst + Len(d_src)
                            THEN d_src[i - dst] ELSE plain[i]]
       ELSE UNCHANGED <<d_ret, d_pc, d_src, plain>>
    /\ latched' = [pc |-> m_pc, sent |-> Len(sent), logged |-> Logged]
    /\ UNCHANGED <<ringVars, src_state, max_plain_size, dst, code, payload, restart_src, eof_read, m_pc>>
    /\ UNCHANGED <<logging_path, clock, packet_time_microseconds,
                   time_microseconds_file_start, fh, path, files, printed, binVars>>

\* if (!buf) buf = acquire(shm); and the call of read_escaped_frame
MainAcquire ==
    /\ m_pc = "top"
    /\ buf' = IF buf = NULL THEN SlotOffset(writer_cursor) + Prefix ELSE buf
    /\ plain' = IF buf = NULL THEN [i \in 1..max_plain_size |-> StaleByte] ELSE plain
    /\ wpc' = "fill"
    /\ dst' = 0
    /\ d_pc' = "code"
    /\ restart_src' = d_src
    /\ m_pc' = "decode"
    /\ UNCHANGED eof_read
    /\ UNCHANGED <<segVars, shmVars, readerVars, ghostVars, d_src, src_state,
                   max_plain_size, code, d_ret, payload, got_sigterm_or_sigint>>
    /\ UNCHANGED <<logVars, binVars>>

\* read_escaped_frame has returned: the flag, -1, 0 (continue)
MainAfterDecode ==
    /\ m_pc = "decode"
    /\ d_pc = "done"
    /\ d_pc' = "idle"
    /\ m_pc' = IF BreakOnFlag \/ d_ret = -1 THEN "exit"
               ELSE IF EmptyFrame THEN "top"
               ELSE "stamp"
    /\ UNCHANGED <<ringVars, d_src, src_state, max_plain_size, plain, dst, code, d_ret,
                   payload, restart_src, eof_read, got_sigterm_or_sigint>>
    /\ UNCHANGED <<logVars, binVars>>

\* packet_time_microseconds - (packet_time_microseconds % 10000000ULL)
Bucket == 10000000
RoundedDownTo10s(T) == T - (T % Bucket)

\* packet_time_microseconds / 1000000ULL, the second the file name is
\* formatted from (gmtime_r and strftime "%Y%m%dT%H%M%SZ")
MicrosPerSecond == 1000000
PathOf(T) == T \div MicrosPerSecond

\* the width of the header's time field: 64 - 16 bits in the program
TimeFieldBits == 8
SizeFieldBits == 16
TimeUnit == 16

RECURSIVE BitOr(_, _)
BitOr(x, y) ==
    IF x = 0 THEN y
    ELSE IF y = 0 THEN x
    ELSE (IF x % 2 = 1 \/ y % 2 = 1 THEN 1 ELSE 0) + 2 * BitOr(x \div 2, y \div 2)

\* a header that stores the time in microseconds
LoggingHeaderWord_Microseconds(T, packet_size) ==
    BitOr((T % (2 ^ TimeFieldBits)) * (2 ^ SizeFieldBits), packet_size)

\* ((packet_time_microseconds / 16) << 16) | packet_size, in a uint64_t
LoggingHeaderWord(T, packet_size) ==
    BitOr(((T \div TimeUnit) % (2 ^ TimeFieldBits)) * (2 ^ SizeFieldBits), packet_size)

\* a padded size that is the size itself
PacketSizePadded_None(packet_size) == packet_size

\* (packet_size + 7) & ~7
PacketSizePadded(packet_size) == ((packet_size + 7) \div 8) * 8

\* fclose(fh); printf("%s\n", path); free(path); fh = NULL
Closed(fs) == [fs EXCEPT ![fh].open = FALSE]

\* exit(EXIT_FAILURE) out of NOPE
Nope ==
    /\ m_pc' = "failed"
    /\ writer_alive' = FALSE
    /\ wpc' = "exited"

\* the time is taken and the flag is polled a second time; then the open
\* file is closed if the packet belongs to a later ten seconds, and a file
\* is opened if none is open.  The warning about a time that has jumped
\* backwards goes to stderr only.
MainStamp ==
    /\ m_pc = "stamp"
    /\ clock # <<>>
    /\ clock' = Tail(clock)
    /\ packet_time_microseconds' = Head(clock)
    /\ LET T == Head(clock)
           rotate == fh # NULL /\ RoundedDownTo10s(T) > time_microseconds_file_start
           fs == IF rotate THEN Closed(files) ELSE files
           out == IF rotate THEN Append(printed, path) ELSE printed
           handle == IF rotate THEN NULL ELSE fh
       IN  IF BreakOnFlag
           THEN /\ m_pc' = "exit"
                /\ UNCHANGED <<writer_alive, wpc, time_microseconds_file_start,
                               fh, path, files, printed>>
           ELSE /\ printed' = out
                /\ IF handle = NULL /\ logging_path
                   THEN /\ path' = PathOf(T)
                        /\ \/ /\ files' = Append(fs, [path |-> PathOf(T), open |-> TRUE,
                                                      start |-> T,
                                                      pos |-> 0, frames |-> <<>>])
                              /\ fh' = Len(fs) + 1
                              /\ time_microseconds_file_start' = T
                              /\ m_pc' = "send"
                              /\ UNCHANGED <<writer_alive, wpc>>
                           \/ /\ files' = fs
                              /\ fh' = NULL
                              /\ Nope
                              /\ UNCHANGED time_microseconds_file_start
                   ELSE /\ files' = fs
                        /\ fh' = handle
                        /\ path' = IF rotate THEN NULL ELSE path
                        /\ m_pc' = "send"
                        /\ UNCHANGED <<writer_alive, wpc, time_microseconds_file_start>>
    /\ UNCHANGED <<shm_name, shm_size, old_pid, ringbuffer_size, packet_size_max,
                   shmVars, buf, readerVars, ghostVars, decVars, got_sigterm_or_sigint,
                   logging_path, latched, binVars>>

\* buf->logging_header = ...; the padding is zeroed;
\* send(shm, sizeof(buf->logging_header) + packet_size); fwrite; buf = NULL
MainSend ==
    /\ m_pc = "send"
    /\ Len(sent) < MaxFrames
    /\ LET packet_size == d_ret
           header == LoggingHeaderWord(packet_time_microseconds, packet_size)
           packet_size_padded == PacketSizePadded(packet_size)
           packet == [i \in 1..Len(plain) |->
                         IF packet_size < i /\ i <= packet_size_padded THEN 0 ELSE plain[i]]
           size == LoggingHeader + packet_size
           slot == SlotOffset(writer_cursor)
           stored == [data EXCEPT ![Cell(buf)] = header, ![Cell(slot)] = size]
       IN  /\ SizePadded(size) <= max_slot_size
           /\ plain' = packet
           /\ data' = stored
           /\ writer_cursor' = (writer_cursor + SizePadded(size)) % CursorSpace
           /\ sent' = Append(sent, [start |-> writer_cursor, size |-> size,
                                    payload |-> [k \in 1..PayloadCells(size) |->
                                                    stored[Cell(slot) + k]]])
           /\ IF fh # NULL
              THEN \/ /\ files' = [files EXCEPT
                                      ![fh].pos = @ + LoggingHeader + packet_size_padded,
                                      ![fh].frames = Append(@,
                                          [header |-> header, size |-> packet_size,
                                           time |-> packet_time_microseconds,
                                           padding |-> SubSeq(packet, packet_size + 1,
                                                              packet_size_padded)])]
                      /\ buf' = NULL
                      /\ wpc' = "idle"
                      /\ m_pc' = "top"
                      /\ UNCHANGED writer_alive
                   \/ /\ Nope
                      /\ UNCHANGED <<files, buf>>
              ELSE /\ buf' = NULL
                   /\ wpc' = "idle"
                   /\ m_pc' = "top"
                   /\ UNCHANGED <<files, writer_alive>>
    /\ UNCHANGED <<shm_name, shm_size, old_pid, ringbuffer_size, packet_size_max,
                   cursor_wrap, max_slot_size, writer_pid, readerVars,
                   seen, touched, lag_ok, attVars, d_src, src_state, max_plain_size,
                   dst, code, d_pc, d_ret, payload, restart_src, eof_read,
                   got_sigterm_or_sigint, logging_path, latched, clock, packet_time_microseconds,
                   time_microseconds_file_start, fh, path, printed, binVars>>

\* after the loop: "exiting", the log file is closed and its path printed,
\* return 0
MainExit ==
    /\ m_pc = "exit"
    /\ m_pc' = "exited"
    /\ writer_alive' = FALSE
    /\ wpc' = "exited"
    /\ IF fh # NULL
       THEN /\ files' = Closed(files)
            /\ printed' = Append(printed, path)
       ELSE UNCHANGED <<files, printed>>
    /\ UNCHANGED <<shm_name, shm_size, old_pid, ringbuffer_size, packet_size_max,
                   shmVars, buf, readerVars, ghostVars, decVars, got_sigterm_or_sigint,
                   logging_path, latched, clock, packet_time_microseconds,
                   time_microseconds_file_start, fh, path, binVars>>

\* a clock that has moved on by ten seconds at every reading
PipeClock == [i \in 1..MaxFrames |-> (i - 1) * Bucket + 17]

InitPipe ==
    /\ ringbuffer_size \in RingbufferSizes
    /\ packet_size_max \in PacketSizeMaxes
    /\ cursor_wrap = ringbuffer_size
    /\ max_slot_size = packet_size_max + Prefix
    /\ shm_size = TotalSize(ringbuffer_size, packet_size_max + Prefix)
    /\ data = ZeroData(ringbuffer_size, packet_size_max + Prefix)
    /\ writer_cursor = 0
    /\ writer_pid = WriterPid
    /\ shm_name = "new" /\ old_pid = 0 /\ writer_alive = TRUE
    /\ wpc = "idle" /\ buf = NULL
    /\ ReaderInit
    /\ GhostInit
    /\ max_plain_size = packet_size_max - LoggingHeader
    /\ d_src \in SeqsUpTo(StreamBytes, MaxStream)
    /\ src_state \in {"open", "closed", "error"}
    /\ plain = [i \in 1..max_plain_size |-> StaleByte]
    /\ dst = 0 /\ code = 0 /\ d_pc = "idle" /\ d_ret = 0 /\ payload = <<>>
    /\ restart_src = <<>> /\ eof_read = FALSE
    /\ \E logging \in BOOLEAN : LogInit(logging, PipeClock)
    /\ BinIdle
    /\ got_sigterm_or_sigint = 0 /\ m_pc = "top"

NextPipe ==
    \/ MainAcquire \/ MainAfterDecode \/ MainStamp \/ MainSend \/ MainExit
    \/ SignalArrives
    \/ ReadCode \/ ReadCodeEof \/ ReadBlock \/ Discard \/ DiscardEof \/ ReadFails

SpecPipe == InitPipe /\ [][NextPipe]_vars

(***************************************************************************)
(* The pipeline with logging enabled, a clock that moves between ten       *)
(* second buckets (and backwards), a file system whose fopen and fwrite    *)
(* can fail, and a reader of the ring.  The source does not reach its end. *)
(***************************************************************************)
\* encoded packets of 1, 2 and 7 bytes
LogFrames == {<<2, 1, 0>>, <<3, 1, 2, 0>>, <<8, 1, 1, 1, 1, 1, 1, 1, 0>>}
MaxLogFrames == 2

RECURSIVE FramesUpTo(_)
FramesUpTo(n) ==
    IF n = 0 THEN {<<>>}
    ELSE LET shorter == FramesUpTo(n - 1)
         IN  shorter \cup {q \o f : q \in shorter, f \in LogFrames}

LogStreams == FramesUpTo(MaxLogFrames)

\* microseconds: a reading in the first ten seconds, one on the next
\* boundary, one in the ten seconds after that
Times == {17, Bucket, 2 * Bucket + 15}
LogClocks == {c \in SeqsUpTo(Times, MaxLogFrames) : Len(c) = MaxLogFrames}

InitLog ==
    /\ ringbuffer_size \in RingbufferSizes
    /\ packet_size_max \in PacketSizeMaxes
    /\ cursor_wrap = ringbuffer_size
    /\ max_slot_size = packet_size_max + Prefix
    /\ shm_size = TotalSize(ringbuffer_size, packet_size_max + Prefix)
    /\ data = ZeroData(ringbuffer_size, packet_size_max + Prefix)
    /\ writer_cursor = 0
    /\ writer_pid = WriterPid
    /\ shm_name = "new" /\ old_pid = 0 /\ writer_alive = TRUE
    /\ wpc = "idle" /\ buf = NULL
    /\ ReaderInit
    /\ GhostInit
    /\ max_plain_size = packet_size_max - LoggingHeader
    /\ d_src \in LogStreams
    /\ src_state \in {"open", "error"}
    /\ plain = [i \in 1..max_plain_size |-> StaleByte]
    /\ dst = 0 /\ code = 0 /\ d_pc = "idle" /\ d_ret = 0 /\ payload = <<>>
    /\ restart_src = <<>> /\ eof_read = FALSE
    /\ \E c \in LogClocks : LogInit(TRUE, c)
    /\ BinIdle
    /\ got_sigterm_or_sigint = 0 /\ m_pc = "top"

NextLog ==
    \/ MainAcquire \/ MainAfterDecode \/ MainStamp \/ MainSend \/ MainExit
    \/ SignalArrives
    \/ ReadCode \/ ReadBlock \/ ReadFails
    \/ AttachOpen \/ AttachMap \/ AttachLoadPid \/ AttachProbe \/ AttachLoadCursor
    \/ RecvLoad \/ RecvSize \/ RecvCheck

SpecLog == InitLog /\ [][NextLog]_vars

(***************************************************************************)
(* main() of bin_to_shm: frames replayed from standard input into the ring.*)
(* Standard input is a sequence of 8-byte words (every fread asks for a    *)
(* multiple of 8 bytes and fails on less).  The model's slot is 16 bytes   *)
(* of prefix and 16 of payload where the program's is 16 and 65536: the    *)
(* size field "& 65535U" of the header is the word modulo the size of buf. *)
(***************************************************************************)
BinWords == {0, 8, 9, 15, 16}
MaxStdin == 4

\* logging_header & 65535U
BinPacketSize(header) == header % packet_size_max

\* if (!buf) buf = acquire(shm); uint64_t logging_header = 0
BinAcquire ==
    /\ b_pc = "top"
    /\ buf' = IF buf = NULL THEN SlotOffset(writer_cursor) + Prefix ELSE buf
    /\ wpc' = "fill"
    /\ logging_header' = 0
    /\ b_pc' = "header"
    /\ UNCHANGED <<segVars, shmVars, readerVars, ghostVars, decVars,
                   got_sigterm_or_sigint, m_pc, logVars, stdin>>

\* do { if (!fread(&logging_header, 8, 1, stdin)) break; } while (!logging_header)
BinReadHeader ==
    /\ b_pc = "header"
    /\ IF stdin = <<>>
       THEN /\ b_pc' = "payload"
            /\ UNCHANGED <<stdin, logging_header>>
       ELSE /\ logging_header' = Head(stdin)
            /\ stdin' = Tail(stdin)
            /\ b_pc' = IF Head(stdin) = 0 THEN "header" ELSE "payload"
    /\ UNCHANGED <<ringVars, decVars, got_sigterm_or_sigint, m_pc, logVars>>

\* if (!fread(buf->packet, packet_size_padded, 1, stdin)) break;
\* fread returns 0 for an item of no bytes and for an item cut short
BinReadPayload ==
    /\ b_pc = "payload"
    /\ LET words == PacketSizePadded(BinPacketSize(logging_header)) \div 8
       IN  IF words = 0 \/ Len(stdin) < words
           THEN /\ stdin' = <<>>
                /\ b_pc' = "exit"
           ELSE /\ stdin' = SubSeq(stdin, words + 1, Len(stdin))
                /\ b_pc' = "send"
    /\ UNCHANGED <<ringVars, decVars, got_sigterm_or_sigint, m_pc, logVars, logging_header>>

\* send(shm, sizeof(buf->logging_header) + packet_size); buf = NULL.
\* When the assertion of send does not hold the program aborts, or, built
\* with NDEBUG, commits the slot all the same.
BinSend ==
    /\ b_pc = "send"
    /\ Len(sent) < MaxFrames
    /\ LET size == LoggingHeader + BinPacketSize(logging_header)
           slot == SlotOffset(writer_cursor)
           stored == [data EXCEPT ![Cell(slot)] = size]
           commit == /\ data' = stored
                     /\ writer_cursor' = (writer_cursor + SizePadded(size)) % CursorSpace
                     /\ sent' = Append(sent, [start |-> writer_cursor, size |-> size,
                                              payload |-> <<>>])
                     /\ buf' = NULL
                     /\ wpc' = "idle"
                     /\ b_pc' = "top"
                     /\ UNCHANGED writer_alive
       IN  IF SizePadded(size) <= max_slot_size
           THEN commit
           ELSE \/ commit
                \/ /\ b_pc' = "aborted"
                   /\ writer_alive' = FALSE
                   /\ wpc' = "exited"
                   /\ UNCHANGED <<data, writer_cursor, sent, buf>>
    /\ UNCHANGED <<shm_name, shm_size, old_pid, ringbuffer_size, packet_size_max,
                   cursor_wrap, max_slot_size, writer_pid, readerVars,
                   seen, touched, lag_ok, attVars, decVars, got_sigterm_or_sigint, m_pc,
                   logVars, stdin, logging_header>>

\* after the loop: "exiting", return 0
BinExit ==
    /\ b_pc = "exit"
    /\ b_pc' = "exited"
    /\ writer_alive' = FALSE
    /\ wpc' = "exited"
    /\ UNCHANGED <<shm_name, shm_size, old_pid, ringbuffer_size, packet_size_max,
                   shmVars, buf, readerVars, ghostVars, decVars, got_sigterm_or_sigint,
                   m_pc, logVars, stdin, logging_header>>

InitBin ==
    /\ ringbuffer_size \in RingbufferSizes
    /\ packet_size_max \in PacketSizeMaxes
    /\ cursor_wrap = ringbuffer_size
    /\ max_slot_size = packet_size_max + Prefix
    /\ shm_size = TotalSize(ringbuffer_size, packet_size_max + Prefix)
    /\ data = ZeroData(ringbuffer_size, packet_size_max + Prefix)
    /\ writer_cursor = 0
    /\ writer_pid = WriterPid
    /\ shm_name = "new" /\ old_pid = 0 /\ writer_alive = TRUE
    /\ wpc = "idle" /\ buf = NULL
    /\ ReaderInit
    /\ GhostInit
    /\ d_src = <<>> /\ src_state = "open" /\ max_plain_size = 0 /\ plain = <<>>
    /\ dst = 0 /\ code = 0 /\ d_pc = "idle" /\ d_ret = 0 /\ payload = <<>>
    /\ restart_src = <<>> /\ eof_read = FALSE
    /\ LogInit(FALSE, <<>>)
    /\ got_sigterm_or_sigint = 0 /\ m_pc = "none"
    /\ stdin \in SeqsUpTo(BinWords, MaxStdin)
    /\ logging_header = 0 /\ b_pc = "top"

NextBin == BinAcquire \/ BinReadHeader \/ BinReadPayload \/ BinSend \/ BinExit

SpecBin == InitBin /\ [][NextBin]_vars

(***************************************************************************)
(* The pipeline over a ring whose slots do not divide cursor_wrap: a slot  *)
(* of 48 bytes in a ring of 64, so that the second slot reaches past the   *)
(* wrap point.  Packets of 1 byte, of 23 bytes (the longest the decoder    *)
(* returns from a buffer of 24) and of 24 bytes (too long).                *)
(***************************************************************************)
SlotPacketSizeMaxes == {32}
SlotFrames == {<<0>>, <<2, 1, 0>>,
               <<24>> \o NonZero(0, 23) \o <<0>>,
               <<25>> \o NonZero(0, 24) \o <<0>>}
MaxSlotFrames == 3

RECURSIVE SlotStreams(_)
SlotStreams(n) ==
    IF n = 0 THEN {<<>>}
    ELSE LET shorter == SlotStreams(n - 1)
         IN  shorter \cup {q \o f : q \in shorter, f \in SlotFrames}

InitSlot ==
    /\ ringbuffer_size \in RingbufferSizes
    /\ packet_size_max \in SlotPacketSizeMaxes
    /\ cursor_wrap = ringbuffer_size
    /\ max_slot_size = packet_size_max + Prefix
    /\ shm_size = TotalSize(ringbuffer_size, packet_size_max + Prefix)
    /\ data = ZeroData(ringbuffer_size, packet_size_max + Prefix)
    /\ writer_cursor = 0
    /\ writer_pid = WriterPid
    /\ shm_name = "new" /\ old_pid = 0 /\ writer_alive = TRUE
    /\ wpc = "idle" /\ buf = NULL
    /\ ReaderInit
    /\ GhostInit
    /\ max_plain_size = packet_size_max - LoggingHeader
    /\ d_src \in SlotStreams(MaxSlotFrames)
    /\ src_state \in {"open", "error"}
    /\ plain = [i \in 1..max_plain_size |-> StaleByte]
    /\ dst = 0 /\ code = 0 /\ d_pc = "idle" /\ d_ret = 0 /\ payload = <<>>
    /\ restart_src = <<>> /\ eof_read = FALSE
    /\ \E logging \in BOOLEAN : LogInit(logging, PipeClock)
    /\ BinIdle
    /\ got_sigterm_or_sigint = 0 /\ m_pc = "top"

NextSlot ==
    \/ MainAcquire \/ MainAfterDecode \/ MainStamp \/ MainSend \/ MainExit
    \/ SignalArrives
    \/ ReadCode \/ ReadBlock \/ Discard \/ ReadFails

SpecSlot == InitSlot /\ [][NextSlot]_vars

(***************************************************************************)
(* The decoder on a frame that is too long for the buffer, followed by     *)
(* whatever the source delivers next.                                      *)
(***************************************************************************)
\* frames that outgrow a buffer of packet_size_max - LoggingHeader = 8 bytes:
\* at the first count byte, or after a block that fitted
OverlongFrames == {<<9, 0>>, <<9, 1, 2, 0>>, <<2, 1, 9, 0>>, <<3, 1, 2, 7, 5, 0>>}

InitResync ==
    /\ ringbuffer_size \in RingbufferSizes
    /\ packet_size_max \in PacketSizeMaxes
    /\ cursor_wrap = ringbuffer_size
    /\ max_slot_size = packet_size_max + Prefix
    /\ shm_size = TotalSize(ringbuffer_size, packet_size_max + Prefix)
    /\ data = ZeroData(ringbuffer_size, packet_size_max + Prefix)
    /\ writer_cursor = 0
    /\ writer_pid = WriterPid
    /\ shm_name = "new" /\ old_pid = 0 /\ writer_alive = TRUE
    /\ wpc = "idle" /\ buf = NULL
    /\ ReaderInit
    /\ GhostInit
    /\ max_plain_size = packet_size_max - LoggingHeader
    /\ \E long \in OverlongFrames, next \in SeqsUpTo(StreamBytes, MaxStream) :
           d_src = long \o next
    /\ restart_src = d_src /\ eof_read = FALSE
    /\ LogInit(FALSE, <<>>)
    /\ BinIdle
    /\ src_state \in {"open", "error"}
    /\ plain = [i \in 1..max_plain_size |-> StaleByte]
    /\ dst = 0 /\ code = 0 /\ d_pc = "code" /\ d_ret = 0 /\ payload = <<>>
    /\ got_sigterm_or_sigint = 0 /\ m_pc = "none"

NextResync == ReadCode \/ ReadBlock \/ Discard \/ ReadFails

SpecResync == InitResync /\ [][NextResync]_vars

(***************************************************************************)
(* Properties of the ring in steady state (Spec).                          *)
(***************************************************************************)
Attached == rpc \in {"ready", "r_size", "r_check", "got", "e_probe"}

\* the index in sent of the slot committed at cursor c, or 0
IndexOf(c) ==
    IF \E k \in 1..Len(sent) : sent[k].start = c
    THEN CHOOSE k \in 1..Len(sent) : sent[k].start = c
    ELSE 0

\* the value of writer_cursor once k slots are committed
CursorAfter(k) == IF k = 0 THEN 0 ELSE sent[k].start + RoundUp16(Prefix + sent[k].size)

\* C1: the observations has_kept_up confirmed are committed slots, each with the
\* size and payload the writer committed, in strictly increasing commit order.
C1_ConfirmedAreCommittedInOrder ==
    /\ \A i \in 1..Len(seen) :
           /\ IndexOf(seen[i].start) > 0
           /\ sent[IndexOf(seen[i].start)] = seen[i]
    /\ \A i \in 1..(Len(seen) - 1) :
           IndexOf(seen[i].start) < IndexOf(seen[i + 1].start)

\* C2: when has_kept_up returns true, the writer has stored into no cell of the
\* slot recv() returned since recv() loaded its size.
C2_KeptUpMeansUntouched ==
    r_ret = <<"kept", 1>> => ~touched

\* C3: a reader whose lag was within cursor_wrap - max_slot_size at every step of
\* its recv and has_kept_up calls has observed exactly the slots committed since it
\* attached, unchanged, and got neither an overrun nor a false has_kept_up.
C3_WithinLagSeesEverySlot ==
    (Attached /\ lag_ok) =>
        /\ att_idx + Len(seen) <= Len(sent)
        /\ seen = SubSeq(sent, att_idx + 1, att_idx + Len(seen))
        /\ r_ret # <<"recv", -1>>
        /\ r_ret # <<"kept", 0>>

\* C4: no reader step changes a field of the segment, no writer step changes the
\* reader's state, and whatever the reader is doing the writer's next step
\* (acquire, the store of the size, the store of the cursor) is enabled.
C4_WriterNeverWaits ==
    /\ (wpc = "idle" => ENABLED Acquire)
    /\ ((wpc = "fill" /\ Len(sent) < MaxFrames) => ENABLED SendStore)
    /\ (wpc = "send" => ENABLED SendCursor)

\* C4, in full: the writer's next step is always enabled, reader steps leave the
\* segment and the writer alone, writer steps leave the reader alone.
C4_ReadersCannotDisturbWriter ==
    /\ []C4_WriterNeverWaits
    /\ [][/\ ReaderStep => UNCHANGED <<shmVars, writerVars>>
          /\ WriterStep => UNCHANGED readerVars]_vars

\* a stalled reader (overrun reported) next to a writer about to publish
C4_Witness ==
    /\ r_ret = <<"recv", -1>>
    /\ wpc = "send"
    /\ Len(sent) >= 2

\* C5: writer_cursor changes only in the second half of send, by
\* round_up_16(prefix + size) >= 16, and every commit changes it: it never
\* decreases, never skips a slot, never advances without a commit.
C5_CursorAdvancesBySendOnly ==
    [][/\ writer_cursor' # writer_cursor =>
             /\ wpc = "send" /\ wpc' = "idle"
             /\ writer_cursor' = writer_cursor
                   + RoundUp16(Prefix + data[Cell(SlotOffset(writer_cursor))])
       /\ (wpc = "send" /\ wpc' = "idle") =>
             /\ writer_cursor' >= writer_cursor + 16
             /\ Len(sent') = Len(sent) + 1
             /\ writer_cursor' = sent'[Len(sent')].start
                   + RoundUp16(Prefix + sent'[Len(sent')].size)
       /\ Len(sent') # Len(sent) => writer_cursor' > writer_cursor]_vars

\* slots of every padded size have been committed
C5_Witness ==
    /\ Len(sent) = 3
    /\ sent[1].size = 9 /\ sent[2].size = 0 /\ sent[3].size = 16
    /\ writer_cursor = 80

\* C6: the cursor attach loads is a value writer_cursor held during the call;
\* recv never returns a slot committed before the call began, and the first slot
\* it returns is the first one committed after the load.
C6_AttachedState ==
    Attached =>
        /\ att_lo <= att_cur
        /\ att_cur <= writer_cursor
        /\ att_cur = CursorAfter(att_idx)
        /\ first_start # NULL =>
               /\ first_start = att_cur
               /\ Len(sent) > att_idx
               /\ sent[att_idx + 1].start = first_start

\* C6, in full: the attached state above holds always, and every slot recv
\* returns starts at or after the value writer_cursor had when attach began.
C6_AttachAtLiveTail ==
    /\ []C6_AttachedState
    /\ [][(rpc = "r_check" /\ rpc' = "got") => reader_cursor >= att_lo]_vars

\* the writer committed while attach was running, and the reader then received
C6_Witness ==
    /\ Attached
    /\ 0 < att_lo /\ att_lo < att_cur
    /\ first_start # NULL

(***************************************************************************)
(* Properties of the life of a segment (SpecLife).                         *)
(***************************************************************************)
\* writer_init has returned in the writer
WriterInitialized == wpc \in {"idle", "fill", "send", "closed", "exited"}

\* C7: whatever the writer's initialization is doing, attach returns NULL or a
\* reader over a segment whose cursor_wrap, max_slot_size and writer_cursor are
\* the initialized ones; it never returns MAP_FAILED.
C7_AttachNullOrInitialized ==
    /\ r_ret # RetMapFailed
    /\ Attached =>
           /\ r_obj = "new"
           /\ cursor_wrap = ringbuffer_size
           /\ max_slot_size = packet_size_max + Prefix
           /\ reader_cursor <= writer_cursor

\* C8: an eof call begun after the writer process is gone returns 1, an attach
\* begun after an initialized writer is gone returns NULL, and eof returns 1
\* next to a living writer only when writer_pid is zero.
C8_DeadWriterDetected ==
    /\ (r_ret[1] = "eof" /\ att_dead) => r_ret[2] = 1
    /\ (r_ret[1] = "attach" /\ att_dead /\ WriterInitialized) => r_ret = RetNull
    /\ (r_ret = <<"eof", 1>> /\ writer_alive) => writer_pid = 0

\* the writer was killed after committing, its pid still in the segment, and
\* an attached reader's eof found it gone by the probe
C8_Witness ==
    /\ r_ret = <<"eof", 1>>
    /\ att_dead
    /\ writer_pid = WriterPid
    /\ wpc = "idle"
    /\ Len(sent) >= 1

(***************************************************************************)
(* Properties of the ingest loop (SpecPipe).                               *)
(***************************************************************************)
\* C9: once the pipeline has exited gracefully (signal, end of stream or read
\* error), writer_pid in the segment is zero.
C9_ExitClearsWriterPid ==
    m_pc = "exited" => writer_pid = 0

(***************************************************************************)
(* Properties of the decoder (SpecCobs).                                   *)
(***************************************************************************)
\* C10: on Encode(P) followed by the end byte, for every P of at most
\* max_plain_size bytes, the decoder never takes the frame for too long and
\* returns Len(P) with the bytes of P at the start of the buffer.
C10_DecodeInvertsEncode ==
    /\ d_pc # "discard"
    /\ (d_pc = "done" /\ Len(d_src) = 0 /\ d_ret # -1) =>
           /\ d_ret = Len(payload)
           /\ SubSeq(plain, 1, Len(payload)) = payload


\* C11: a frame that is one maximal block (0xFF, MaxRun nonzero bytes) and the
\* end byte decodes to MaxRun bytes, the bytes of the block, whenever the
\* buffer has room for them.
C11_MaximalBlockFrame ==
    (/\ d_pc = "done" /\ d_ret # -1 /\ Len(d_src) = 0
     /\ payload = NonZero(0, MaxRun)
     /\ max_plain_size > MaxRun) =>
        /\ d_ret = MaxRun
        /\ SubSeq(plain, 1, MaxRun) = payload


(***************************************************************************)
(* Properties of the decoder after a frame that is too long (SpecResync).  *)
(***************************************************************************)
\* the frame the call returned is the one a decoder started on restart_src returns
ResyncedResult ==
    (d_pc = "done" /\ d_ret # -1) =>
        LET fresh == DecodeFrom(restart_src, <<>>, max_plain_size)
        IN  /\ fresh.returned
            /\ d_ret = fresh.ret
            /\ SubSeq(plain, 1, d_ret) = SubSeq(fresh.out, 1, fresh.ret)

\* C12: once the frame is too long the decoder consumes bytes up to and
\* including the next zero byte, returns nothing and stores nothing while it
\* does, starts over with an empty buffer, and what it then returns is what a
\* decoder started right after that zero byte returns.
C12_ResyncOnTooLong ==
    /\ []ResyncedResult
    /\ [][d_pc = "discard" =>
             /\ plain' = plain
             /\ d_ret' = d_ret \/ d_ret' = -1
             /\ d_pc' = "code" =>
                    /\ Head(d_src) = 0
                    /\ d_src' = Tail(d_src)
                    /\ dst' = 0
             /\ (d_pc' = "discard" /\ d_src' # d_src) => Head(d_src) # 0]_vars

\* after <<9, 1, 2, 0>> was discarded the frame 02 01 00 came back as one byte
C12_Witness ==
    /\ d_pc = "done"
    /\ d_ret = 1
    /\ plain[1] = 1
    /\ restart_src = <<2, 1, 0>>
    /\ Len(d_src) = 0


(***************************************************************************)
(* C13: once a read() of the byte source has returned 0 (end of stream,    *)
(* at a count byte, inside a block or in the discard loop), the ingest     *)
(* loop commits no further frame to the ring, and it does not get caught   *)
(* in a loop that no further input can end (it goes on to its exit).       *)
(***************************************************************************)
C13_EndOfStreamEndsIngest ==
    /\ [](eof_read => d_pc # "spin")
    /\ [][eof_read => writer_cursor' = writer_cursor]_vars


(***************************************************************************)
(* The header of a committed frame.                                        *)
(***************************************************************************)
\* the step commits a frame of the pipeline to the ring
Commits == m_pc = "send" /\ writer_cursor' # writer_cursor
\* the header the step leaves at the start of the slot's payload
CommittedHeader == data'[Cell(buf)]
Low16(h) == h % (2 ^ SizeFieldBits)
High48(h) == h \div (2 ^ SizeFieldBits)
\* the header's time field can hold T in units of 16 microseconds
Representable(T) == T \div TimeUnit < 2 ^ TimeFieldBits

(***************************************************************************)
(* C14 as stated: for every frame the pipeline commits, the low 16 bits of *)
(* the header are the decoded size and the high 48 bits times 16 are the   *)
(* timestamp T stamped for the frame, for every T the time field can hold. *)
(***************************************************************************)
C14_HeaderRoundTrip ==
    [][Commits =>
          /\ Low16(CommittedHeader) = d_ret
          /\ Representable(packet_time_microseconds) =>
                High48(CommittedHeader) * TimeUnit = packet_time_microseconds]_vars

(***************************************************************************)
(* C14 amended: for every frame the pipeline commits, the low 16 bits of   *)
(* the header are the decoded size and the high 48 bits are T / 16 rounded *)
(* down (modulo 2^48): high_48 * 16 is T less its remainder modulo 16.     *)
(***************************************************************************)
C14_HeaderHoldsSixteenths ==
    [][Commits =>
          /\ Low16(CommittedHeader) = d_ret
          /\ High48(CommittedHeader)
                = (packet_time_microseconds \div TimeUnit) % (2 ^ TimeFieldBits)
          /\ Representable(packet_time_microseconds) =>
                High48(CommittedHeader) * TimeUnit
                    = packet_time_microseconds - (packet_time_microseconds % TimeUnit)]_vars

\* a packet of 7 bytes stamped 17 microseconds has been committed
C14_Witness ==
    /\ Len(sent) = 1
    /\ packet_time_microseconds = 17
    /\ sent[1].size = LoggingHeader + 7
    /\ sent[1].payload[1] = 65536 + 7


(***************************************************************************)
(* The log files.                                                          *)
(***************************************************************************)
OpenFiles == {i \in 1..Len(files) : files[i].open}
\* main has returned, or the decoder is in a loop that nothing can end
IngestOver == m_pc = "exited" \/ d_pc = "spin"

(***************************************************************************)
(* C15: with logging enabled and no fatal write error, at most one log     *)
(* file is open at any time; a file is closed, and its path printed, before*)
(* any later file is opened; the paths printed are those of the closed     *)
(* files, once each and in order; and when the ingest is over (signal, end *)
(* of stream, read error) no file is left open.                            *)
(***************************************************************************)
C15_FilesClosedAndReportedOnce ==
    /\ Cardinality(OpenFiles) <= 1
    /\ \A i \in 1..(Len(files) - 1) : ~files[i].open
    /\ printed = [i \in 1..(Len(files) - Cardinality(OpenFiles)) |-> files[i].path]
    /\ IngestOver => OpenFiles = {}


\* the bytes the fwrite calls recorded in frames have put into a file
RECURSIVE BytesWritten(_)
BytesWritten(frames) ==
    IF frames = <<>> THEN 0
    ELSE LoggingHeader + Head(frames).size + Len(Head(frames).padding)
            + BytesWritten(Tail(frames))

(***************************************************************************)
(* C16: writer_cursor and the reader's reader_cursor are multiples of 16   *)
(* in every reachable state, so every slot prefix starts at a multiple of  *)
(* 16 in the data region; after each frame appended to a log file the      *)
(* file's write position is a multiple of 8, each frame taking 8 bytes of  *)
(* header and its size rounded up to a multiple of 8, and the bytes after  *)
(* the packet are zero.                                                    *)
(***************************************************************************)
C16_Alignment ==
    /\ writer_cursor % 16 = 0
    /\ reader_cursor % 16 = 0
    /\ SlotOffset(writer_cursor) % 16 = 0
    /\ SlotOffset(reader_cursor) % 16 = 0
    /\ \A i \in 1..Len(files) :
          /\ files[i].pos % 8 = 0
          /\ files[i].pos = BytesWritten(files[i].frames)
          /\ \A k \in 1..Len(files[i].frames) :
                LET f == files[i].frames[k]
                IN  /\ (f.size + Len(f.padding)) % 8 = 0
                    /\ Len(f.padding) < 8
                    /\ \A j \in 1..Len(f.padding) : f.padding[j] = 0

\* a packet of 1 byte and one of 7 bytes are in the first file, and the
\* reader has received the first of them
C16_Witness ==
    /\ Len(files) = 1
    /\ files[1].pos = 32
    /\ Len(files[1].frames[1].padding) = 7
    /\ Len(files[1].frames[2].padding) = 1
    /\ writer_cursor = 64
    /\ reader_cursor = 32


(***************************************************************************)
(* C17: has_kept_up returns true if and only if                            *)
(* writer_cursor - (reader_cursor - last_slot_span) + max_slot_size        *)
(* <= cursor_wrap, reader_cursor being the cursor the last successful recv *)
(* left and last_slot_span what that recv advanced it by: the test is      *)
(* against the start of the slot just consumed.                            *)
(***************************************************************************)
C17_KeptUpTestsConsumedSlot ==
    [][(rpc = "got" /\ r_ret'[1] = "kept") =>
          (r_ret'[2] = 1 <=>
              ((writer_cursor - LastStart) % CursorSpace) + max_slot_size <= cursor_wrap)]_vars


(***************************************************************************)
(* C18: recv has exactly three outcomes.  It returns 0 ("empty") and       *)
(* leaves reader_cursor unchanged iff its first load of writer_cursor      *)
(* equals reader_cursor; otherwise it returns -1 ("overrun") and leaves    *)
(* reader_cursor unchanged iff its second load w' has                      *)
(* w' + max_slot_size - reader_cursor - prefix > cursor_wrap; otherwise it *)
(* returns the size s read from the prefix at reader_cursor mod            *)
(* cursor_wrap, with that slot's payload, and advances reader_cursor by    *)
(* round_up_16(prefix + s).                                                *)
(***************************************************************************)
C18_RecvOutcomes ==
    [][/\ (/\ rpc = "ready" /\ r_ret'[1] \in {"recv", "recv_pending"}
           /\ r_ret' # r_ret) =>
            /\ (r_ret' = <<"recv", 0>> /\ rpc' = "ready") <=> writer_cursor = reader_cursor
            /\ writer_cursor # reader_cursor => rpc' = "r_size"
            /\ reader_cursor' = reader_cursor
       /\ (rpc = "r_size" /\ rpc' # rpc) =>
            /\ rpc' = "r_check"
            /\ r_slot' = reader_cursor % cursor_wrap
            /\ r_size' = data[Cell(reader_cursor % cursor_wrap)]
            /\ reader_cursor' = reader_cursor
       /\ (rpc = "r_check" /\ rpc' # rpc) =>
            LET late == (writer_cursor + max_slot_size - reader_cursor - Prefix)
                            % CursorSpace > cursor_wrap
            IN  /\ rpc' \in {"ready", "got"}
                /\ (r_ret' = <<"recv", -1>> /\ reader_cursor' = reader_cursor) <=> late
                /\ ~late =>
                      /\ r_ret' = <<"recv", AsSigned(r_size)>>
                      /\ reader_cursor'
                            = (reader_cursor + RoundUp16(Prefix + r_size)) % CursorSpace
                      /\ r_slot' = r_slot /\ r_size' = r_size]_vars

\* recv has returned a slot of 9 bytes that the writer was 48 ahead of, the
\* largest lag that is not an overrun
C18_Witness ==
    /\ rpc = "got"
    /\ r_ret = <<"recv", 9>>
    /\ r_slot = 0
    /\ reader_cursor = 32
    /\ writer_cursor = 48


(***************************************************************************)
(* C19: whenever recv does not return "overrun", the writer has not stored *)
(* to the size prefix at reader_cursor between recv's two loads, so the    *)
(* size recv returns is the size the writer committed for the slot at      *)
(* reader_cursor; and no recv that returns a size larger than              *)
(* max_slot_size - prefix is followed by has_kept_up returning true.       *)
(***************************************************************************)
C19_ReturnedSizeIsCommitted ==
    [][/\ (rpc = "r_check" /\ rpc' # rpc /\ r_ret' # <<"recv", -1>>) =>
            \E k \in 1..Len(sent) :
                sent[k].start = reader_cursor /\ sent[k].size = r_size
       /\ (rpc = "got" /\ r_ret'[1] = "kept" /\ r_size > max_slot_size - Prefix) =>
            r_ret'[2] = 0]_vars


(***************************************************************************)
(* C20: in both programs every call of send(n) satisfies its assertion     *)
(* round_up_16(prefix + n) <= max_slot_size: cobs_to_shm sends 8 + the     *)
(* decoded size, bin_to_shm sends 8 + the size field of the header it read *)
(* from standard input, whatever that field holds.                         *)
(***************************************************************************)
C20_SendAssertionHolds ==
    /\ m_pc = "send" => RoundUp16(Prefix + LoggingHeader + d_ret) <= max_slot_size
    /\ b_pc = "send" =>
          RoundUp16(Prefix + LoggingHeader + BinPacketSize(logging_header)) <= max_slot_size


(***************************************************************************)
(* Where the writer of the pipeline stores, in bytes of the data region.   *)
(***************************************************************************)
\* the start of the slot the writer has acquired, and of its packet
SlotStart == SlotOffset(writer_cursor)
PacketStart == SlotStart + Prefix + LoggingHeader
\* the bytes from lo up to hi lie in the slot and in the data region
InSlot(lo, hi) ==
    /\ SlotStart <= lo /\ lo <= hi
    /\ hi <= SlotStart + max_slot_size
    /\ hi <= cursor_wrap + max_slot_size
\* the bytes readall and the line after it are about to store
BlockBytes == (code - 1) + (IF code # MaxRun + 1 THEN 1 ELSE 0)

(***************************************************************************)
(* C21: every byte the writer stores for a slot lies inside the slot's     *)
(* span of max_slot_size bytes and inside the data region of cursor_wrap + *)
(* max_slot_size bytes.  The slot starts below cursor_wrap; the size       *)
(* prefix, the 8-byte header, every block the decoder stores with the zero *)
(* it puts after it, and the zero padding up to the next multiple of 8 lie *)
(* within prefix + 8 + capacity bytes of the slot's start.                 *)
(***************************************************************************)
C21_StoresStayInSlot ==
    /\ SlotStart < cursor_wrap
    /\ Prefix + LoggingHeader + max_plain_size <= max_slot_size
    /\ (buf # NULL /\ writer_alive) => buf = SlotStart + Prefix
    /\ d_pc = "block" => InSlot(PacketStart + dst, PacketStart + dst + BlockBytes)
    /\ m_pc = "send" =>
          /\ InSlot(SlotStart, SlotStart + Prefix)
          /\ InSlot(buf, buf + LoggingHeader)
          /\ InSlot(PacketStart, PacketStart + d_ret)
          /\ InSlot(PacketStart + d_ret, PacketStart + PacketSizePadded(d_ret))

\* the decoder is about to store the longest block into a slot that starts
\* at 32 and ends at 80, past the wrap point at 64
C21_Witness ==
    /\ d_pc = "block"
    /\ SlotStart = 32
    /\ dst + BlockBytes = max_plain_size
    /\ PacketStart + dst + BlockBytes = 80
    /\ cursor_wrap = 64


(***************************************************************************)
(* Properties of writer_init and its arguments (SpecArgs).                 *)
(***************************************************************************)
\* the arguments the documentation of the ring allows
ArgsAllowed ==
    /\ ringbuffer_size # 0 /\ PowerOfTwo(ringbuffer_size)
    /\ ringbuffer_size % 16 = 0
    /\ packet_size_max % 16 = 0

(***************************************************************************)
(* C22: writer_init fails, publishing no writer_pid and leaving no ring a  *)
(* reader can attach to, when the capacity is zero or not a power of two   *)
(* or when a size is not a multiple of 16; and after every writer_init     *)
(* that succeeds cursor_wrap is a power of two, cursor_wrap is at least    *)
(* max_slot_size, max_slot_size is a multiple of 16 and writer_cursor is 0.*)
(***************************************************************************)
C22_InitChecksArguments ==
    /\ ~ArgsAllowed =>
          /\ writer_pid = 0
          /\ wpc # "idle"
          /\ ~(Attached /\ r_obj = "new")
    /\ wpc = "idle" =>
          /\ PowerOfTwo(cursor_wrap)
          /\ cursor_wrap >= max_slot_size
          /\ max_slot_size % 16 = 0
          /\ writer_cursor = 0


(***************************************************************************)
(* C23: a frame stamped T is written to a log file only when T lies in the *)
(* 10-second bucket of the frame that opened the file; a file of another   *)
(* bucket, later or earlier, was closed before. Hence all frames of one    *)
(* log file belong to one bucket.                                          *)
(***************************************************************************)
C23_OneBucketPerFile ==
    \A i \in 1..Len(files) :
        \A k \in 1..Len(files[i].frames) :
            RoundedDownTo10s(files[i].frames[k].time) = RoundedDownTo10s(files[i].start)


(***************************************************************************)
(* C24: once the termination flag is set, the only frame that is still     *)
(* committed to the ring or appended to a log file is the one that had     *)
(* passed the second poll of the flag when the flag was set, and at most   *)
(* that one; a frame whose decoding was interrupted, or returned after the *)
(* flag was set, is dropped and the loop goes to its exit.                 *)
(***************************************************************************)
C24_NothingNewAfterSignal ==
    got_sigterm_or_sigint = 1 =>
        /\ Len(sent) <= latched.sent + 1
        /\ Logged <= latched.logged + 1
        /\ (Len(sent) > latched.sent \/ Logged > latched.logged) => latched.pc = "send"
        /\ m_pc = "send" => (latched.pc = "send" /\ Len(sent) = latched.sent
                                                 /\ Logged = latched.logged)
        /\ m_pc = "stamp" => latched.pc = "stamp"
        /\ latched.pc \in {"decode", "stamp"} => m_pc \in {latched.pc, "exit", "exited"}

\* the signal interrupted the decoding of a third frame, after two commits:
\* the loop has left with two frames in the ring
C24_Witness ==
    /\ got_sigterm_or_sigint = 1
    /\ latched.pc = "decode" /\ latched.sent = 2
    /\ d_ret = -1
    /\ m_pc = "exited"
    /\ Len(sent) = 2


(***************************************************************************)
(* C25: when the decoder returns 0 the iteration changes nothing that can  *)
(* be observed: writer_cursor, the ring, the log files, the open file and  *)
(* the printed paths stay as they are and no time is taken; the loop goes  *)
(* on (or leaves on the flag), and the next frame is decoded into the slot *)
(* that was acquired before, the slot at writer_cursor.                    *)
(***************************************************************************)
C25_EmptyFrameChangesNothing ==
    [][ /\ (m_pc = "decode" /\ d_pc = "done" /\ d_ret = 0 /\ m_pc' # m_pc) =>
            /\ m_pc' = IF got_sigterm_or_sigint = 1 THEN "exit" ELSE "top"
            /\ buf' = buf /\ buf # NULL
            /\ UNCHANGED <<writer_cursor, data, sent, clock, packet_time_microseconds,
                           time_microseconds_file_start, fh, path, files, printed>>
        /\ (m_pc = "top" /\ buf # NULL /\ m_pc' # m_pc) =>
            /\ m_pc' = "decode"
            /\ buf' = buf
            /\ buf' = SlotOffset(writer_cursor) + Prefix
            /\ UNCHANGED <<writer_cursor, data, sent, clock, fh, path, files, printed>>
      ]_vars

\* an empty frame after one commit was skipped: the loop is at its top with
\* the slot of the skipped frame still acquired
C25_Witness ==
    /\ m_pc = "top" /\ d_ret = 0 /\ d_pc = "idle"
    /\ got_sigterm_or_sigint = 0
    /\ Len(sent) = 1
    /\ buf = SlotOffset(writer_cursor) + Prefix


(***************************************************************************)
(* Cursors of the width of size_t against cursors that never wrap          *)
(* (SpecWrap).                                                             *)
(***************************************************************************)
\* how far the reader is behind the writer, in counters that never wrap
TrueLag == WriterUnbounded - reader_unbounded

ReaderAttached == rpc \in {"ready", "r_size", "r_check", "got"}

C27_ReplayKeepsLayout ==
    [][ /\ (b_pc = "send" /\ writer_cursor' # writer_cursor) =>
              /\ data'[Cell(SlotOffset(writer_cursor))] =
                     LoggingHeader + BinPacketSize(logging_header)
              /\ data'[Cell(SlotOffset(writer_cursor) + Prefix)] = logging_header
        /\ (/\ b_pc = "payload" /\ b_pc' # b_pc
            /\ logging_header # 0
            /\ Len(stdin) >= PacketSizePadded(BinPacketSize(logging_header)) \div 8) =>
              b_pc' = "send"
      ]_vars


(***************************************************************************)
(* C28: overrun is absorbing. Once recv has returned -1 to a reader, no    *)
(* later recv of that reader changes reader_cursor and every later recv    *)
(* returns -1 again, never 0 and never a frame, while writer_cursor has    *)
(* not gone once around the range of the cursor; only a new attach ends    *)
(* it.                                                                     *)
(***************************************************************************)
C28_OverrunIsAbsorbing ==
    [][ (overrun_seen /\ WriterUnbounded - reader_unbounded < CursorSpace) =>
          /\ (rpc \in {"ready", "r_size", "r_check", "got"}) =>
                reader_cursor' = reader_cursor
          /\ (rpc = "ready" /\ r_ret' # r_ret /\ rpc' \in {"ready", "r_size"}) =>
                r_ret' = <<"recv_pending", 0>>
          /\ (rpc = "r_check" /\ rpc' # rpc) =>
                r_ret' = <<"recv", -1>>
      ]_vars

====
